---------------------------- MODULE Spec2Model ----------------------------
(***************************************************************************)
(* Escritoire: the note card (NoteCard), the context manager               *)
(* (ContextManager) and the Gemini service module (geminiService).         *)
(*                                                                         *)
(* Strings that the code concatenates, trims or tests for emptiness are    *)
(* sequences of tokens (Text); every token stands for a non-empty run of   *)
(* characters.  Other JavaScript values are atoms (TLA+ strings).          *)
(* Every await of the code is a point where other handlers may run: a      *)
(* call is a record that remembers what the closure captured, and the      *)
(* environment resolves the awaited promise in a separate action.          *)
(***************************************************************************)
EXTENDS Integers, Sequences, FiniteSets, TLC

\* ------------------------------------------------------------------ bounds
NumEmbCalls == 2      \* getTextEmbedding calls that may overlap
MaxChat == 3          \* chat messages a card may hold before input is refused
MaxMounts == 2        \* ContextManager instances mounted one after the other

\* ------------------------------------------------------- JavaScript values
Null == "<null>"
Undefined == "<undefined>"
UndefinedText == <<Undefined>>

\* JavaScript truthiness of a string-or-null value held as an atom.
TruthyAtom(v) == v \notin {Null, Undefined, ""}

\* JavaScript truthiness of an optional string held as a Text.
TruthyText(t) == t # UndefinedText /\ t # <<>>

Return(v) == [kind |-> "return", val |-> v]
Throw == [kind |-> "throw", val |-> Undefined]
NoResult == [kind |-> "none", val |-> Undefined]

\* ------------------------------------------------------------------- text
WS == " "
Sep == "\n\n"

RECURSIVE TrimStart(_)
TrimStart(t) == IF t # <<>> /\ Head(t) = WS THEN TrimStart(Tail(t)) ELSE t

RECURSIVE TrimEnd(_)
TrimEnd(t) ==
  IF t # <<>> /\ t[Len(t)] = WS THEN TrimEnd(SubSeq(t, 1, Len(t) - 1)) ELSE t

\* String.prototype.trim
Trim(t) == TrimEnd(TrimStart(t))

RECURSIVE JSLength(_)
\* String.prototype.length: the characters of all tokens
JSLength(t) == IF t = <<>> THEN 0 ELSE Len(Head(t)) + JSLength(Tail(t))

\* --------------------------------------------------------- service module
FlashModel == "gemini-3-flash-preview"
ProModel == "gemini-3-pro-preview"
Tiers == {"flash", "pro"}

CloudVector == "cloud-vector"
LocalVector == "local-vector"
Pipeline == "all-MiniLM-L6-v2"

VARIABLES
  currentTier,     \* geminiService: let currentTier
  localEmbedder,   \* geminiService: let localEmbedder
  emb,             \* the getTextEmbedding calls in progress
  proc,            \* the processNoteWithAI call in progress
  store,           \* localStorage: the two context keys
  cm,              \* ContextManager: the mounted instance's state
  reader,          \* ContextManager: the FileReader that is reading, if any
  ctxHist,         \* the last upload or clear that ran to its end
  note,            \* NoteCard: the note prop, as the parent last set it
  card,            \* NoteCard: isReformatting, isSynthesizing, isChatLoading, ...
  chatMessages,    \* NoteCard: chatMessages
  reformatCall,    \* NoteCard: the handleReformat invocation awaiting its reply
  synthCall,       \* NoteCard: the handleApplySuggestion invocation awaiting
  chatCall,        \* NoteCard: the handleSendMessage invocation awaiting
  lastCommit,      \* the reply the latest synthesis request got, for inspection
  lastReformat,    \* the handleReformat that ended last, for inspection
  history          \* the content before the refinements not yet reverted

tierVars == <<currentTier>>
embVars == <<localEmbedder, emb>>
ctxVars == <<store, cm, reader, ctxHist>>
cardVars == <<note, card, chatMessages, reformatCall, synthCall, chatCall,
              lastCommit, lastReformat, history>>
vars == <<currentTier, localEmbedder, emb, proc, store, cm,
          reader, ctxHist, note, card, chatMessages, reformatCall, synthCall,
          chatCall, lastCommit, lastReformat, history>>

\* --------------------------------------------------------------- embedding
EmbIds == 1..NumEmbCalls

IdleEmb ==
  [pc |-> "idle", owner |-> "none", cloud |-> "none", init |-> "none",
   run |-> "none", localInvoked |-> FALSE, res |-> NoResult]

\* initLocalEmbedder: `if (localEmbedder) return localEmbedder`
initLocalEmbedder_cached(embedder) == TruthyAtom(embedder)

\* initLocalEmbedder once pipeline() has settled: the try returns the loaded
\* model, the catch logs and returns null.
initLocalEmbedder_settled(loaded) ==
  IF loaded THEN Return(Pipeline) ELSE Return(Null)

\* Variant: the catch of getLocalEmbedding rethrows.
getLocalEmbedding_rethrows(how) ==
  CASE how = "no-model" -> Return(Null)
    [] how = "output" -> Return(LocalVector)
    [] how = "threw" -> Throw

\* getLocalEmbedding, by the way its body ended: `if (!model) return null`,
\* the converted output, or the catch that logs and returns null.
getLocalEmbedding_end(how) ==
  CASE how = "no-model" -> Return(Null)
    [] how = "output" -> Return(LocalVector)
    [] how = "threw" -> Return(Null)

\* getTextEmbedding's catch: `const local = await getLocalEmbedding(text);
\* return local || undefined`.  A rejection of the awaited call escapes.
getTextEmbedding_catch(local) ==
  IF local.kind = "throw" THEN Throw
  ELSE Return(IF TruthyAtom(local.val) THEN local.val ELSE Undefined)

\* getTextEmbedding up to its first await: embedContent has been issued.
getTextEmbedding_issued(owner) ==
  [IdleEmb EXCEPT !.pc = "cloud", !.owner = owner]

\* A caller other than processNoteWithAI asks for an embedding.
getTextEmbedding(i) ==
  /\ emb[i].pc = "idle"
  /\ emb' = [emb EXCEPT ![i] = getTextEmbedding_issued("app")]
  /\ UNCHANGED <<tierVars, localEmbedder, proc, ctxVars, cardVars>>

\* ai.models.embedContent settles.  On success the vector is returned; on
\* failure the catch calls getLocalEmbedding, which calls initLocalEmbedder:
\* a cached model is used at once, otherwise pipeline() is awaited.
EmbedContentSettles(i) ==
  /\ emb[i].pc = "cloud"
  /\ \E ok \in BOOLEAN :
       emb' = [emb EXCEPT ![i] =
         IF ok
         THEN [@ EXCEPT !.pc = "done", !.cloud = "ok", !.res = Return(CloudVector)]
         ELSE IF initLocalEmbedder_cached(localEmbedder)
         THEN [@ EXCEPT !.pc = "run", !.cloud = "fail", !.localInvoked = TRUE,
                        !.init = "ok"]
         ELSE [@ EXCEPT !.pc = "load", !.cloud = "fail", !.localInvoked = TRUE]]
  /\ UNCHANGED <<tierVars, localEmbedder, proc, ctxVars, cardVars>>

\* pipeline('feature-extraction', ...) settles inside initLocalEmbedder.
PipelineSettles(i) ==
  /\ emb[i].pc = "load"
  /\ \E loaded \in BOOLEAN :
       LET model == initLocalEmbedder_settled(loaded) IN
       /\ localEmbedder' = IF loaded THEN Pipeline ELSE localEmbedder
       /\ emb' = [emb EXCEPT ![i] =
            IF model.kind = "return" /\ TruthyAtom(model.val)
            THEN [@ EXCEPT !.pc = "run", !.init = "ok"]
            ELSE [@ EXCEPT !.pc = "done", !.init = "failed",
                   !.res = getTextEmbedding_catch(
                             getLocalEmbedding_end(
                               IF model.kind = "throw" THEN "threw" ELSE "no-model"))]]
  /\ UNCHANGED <<tierVars, proc, ctxVars, cardVars>>

\* model(text, {pooling, normalize}) settles inside getLocalEmbedding.
ModelSettles(i) ==
  /\ emb[i].pc = "run"
  /\ \E ok \in BOOLEAN :
       emb' = [emb EXCEPT ![i] =
         [@ EXCEPT !.pc = "done", !.run = IF ok THEN "ok" ELSE "failed",
            !.res = getTextEmbedding_catch(
                      getLocalEmbedding_end(IF ok THEN "output" ELSE "threw"))]]
  /\ UNCHANGED <<tierVars, localEmbedder, proc, ctxVars, cardVars>>

\* The caller takes the settled promise's value; the slot is free again.
EmbeddingTaken(i) ==
  /\ emb[i].pc = "done"
  /\ emb[i].owner = "app"
  /\ emb' = [emb EXCEPT ![i] = IdleEmb]
  /\ UNCHANGED <<tierVars, localEmbedder, proc, ctxVars, cardVars>>

\* ------------------------------------------------------- generation requests
NoDoc == "<no-document>"
NoRequest == [model |-> "", doc |-> NoDoc]

\* A generateContent request as it leaves the browser, kept by the call
\* that awaits it: the model it targets and the document inlined in it.
Request(model, doc) == [model |-> model, doc |-> doc]

\* Variant: the tier is ignored.
ModelName_flashOnly(tier) == FlashModel

\* `currentTier === 'pro' ? 'gemini-3-pro-preview' : 'gemini-3-flash-preview'`
ModelName(tier) == IF tier = "pro" THEN ProModel ELSE FlashModel

\* export const setModelTier
setModelTier(tier) ==
  /\ currentTier' = tier
  /\ UNCHANGED <<embVars, proc, ctxVars, cardVars>>

\* getContextPDF: localStorage.getItem gives the value, or null for no key.
getContextPDF(s) == s.pdf

\* Variant: the document is never inlined.
processParts_never(pdfContext) == NoDoc

\* processNoteWithAI: `if (pdfContext) parts.push({inlineData: ...})`
processParts(pdfContext) ==
  IF TruthyAtom(pdfContext) THEN pdfContext ELSE NoDoc

\* --------------------------------------------------------- processNoteWithAI
UndefinedTags == <<Undefined>>
EmptyObject ==
  [category |-> Undefined, headline |-> Undefined, tags |-> UndefinedTags]

\* What the metadata response's text may parse to: fields present, present
\* but empty, or missing.
ParsedObjects ==
  { EmptyObject,
    [category |-> "Tech", headline |-> "Title", tags |-> <<"Work">>],
    [category |-> "", headline |-> "Title", tags |-> <<>>],
    [category |-> "Tech", headline |-> "", tags |-> UndefinedTags] }

\* response.text of the metadata request: undefined, the empty string, text
\* that is no JSON object, or the JSON of an object.
ResponseTexts ==
  {[kind |-> k, obj |-> EmptyObject] : k \in {"undefined", "empty", "garbage"}}
    \cup {[kind |-> "json", obj |-> o] : o \in ParsedObjects}

NoResponse == [settled |-> FALSE, ok |-> FALSE,
               text |-> [kind |-> "undefined", obj |-> EmptyObject]]
GenResponses ==
  {[settled |-> TRUE, ok |-> FALSE, text |-> NoResponse.text]}
    \cup {[settled |-> TRUE, ok |-> TRUE, text |-> t] : t \in ResponseTexts}

NoAIResponse == [category |-> Undefined, headline |-> Undefined,
                 tags |-> UndefinedTags, embedding |-> Undefined]

\* JSON.parse(response.text || '{}')
JSONparse(text) ==
  CASE text.kind \in {"undefined", "empty"} -> Return(EmptyObject)
    [] text.kind = "garbage" -> [kind |-> "throw", val |-> EmptyObject]
    [] text.kind = "json" -> Return(text.obj)

\* Variant: an undefined embedding is an error.
processNoteWithAI_embeddingDecides(resp, embedding) ==
  LET result == JSONparse(resp.text) IN
  IF ~resp.ok \/ embedding.kind = "throw" \/ result.kind = "throw"
     \/ embedding.val = Undefined
  THEN [kind |-> "throw", val |-> NoAIResponse]
  ELSE Return([category |-> IF TruthyAtom(result.val.category)
                            THEN result.val.category ELSE "General",
               headline |-> IF TruthyAtom(result.val.headline)
                            THEN result.val.headline ELSE "New Entry",
               tags |-> IF result.val.tags # UndefinedTags
                        THEN result.val.tags ELSE <<>>,
               embedding |-> embedding.val])

\* processNoteWithAI from `await Promise.all` on: a rejection of either
\* promise or a throw of JSON.parse is logged and rethrown; otherwise the
\* parsed fields are returned with their defaults.
processNoteWithAI_end(resp, embedding) ==
  LET result == JSONparse(resp.text) IN
  IF ~resp.ok \/ embedding.kind = "throw" \/ result.kind = "throw"
  THEN [kind |-> "throw", val |-> NoAIResponse]
  ELSE Return([category |-> IF TruthyAtom(result.val.category)
                            THEN result.val.category ELSE "General",
               headline |-> IF TruthyAtom(result.val.headline)
                            THEN result.val.headline ELSE "New Entry",
               tags |-> IF result.val.tags # UndefinedTags
                        THEN result.val.tags ELSE <<>>,
               embedding |-> embedding.val])

IdleProc == [pc |-> "idle", embId |-> 0, req |-> NoRequest, resp |-> NoResponse,
             res |-> [kind |-> "none", val |-> NoAIResponse]]

\* processNoteWithAI up to `await Promise.all`: the document and the model
\* name are read, getTextEmbedding is called and the request is issued.
processNoteWithAI(i) ==
  /\ proc.pc = "idle"
  /\ emb[i].pc = "idle"
  /\ \A j \in 1..(i - 1) : emb[j].pc # "idle"
  /\ emb' = [emb EXCEPT ![i] = getTextEmbedding_issued("process")]
  /\ LET pdfContext == getContextPDF(store)
         modelName == ModelName(currentTier)
     IN proc' = [IdleProc EXCEPT !.pc = "pending", !.embId = i,
                   !.req = Request(modelName, processParts(pdfContext))]
  /\ UNCHANGED <<tierVars, localEmbedder, ctxVars, cardVars>>

\* The metadata request settles.  A rejection rejects Promise.all at once.
GenerateSettles ==
  /\ proc.pc = "pending"
  /\ ~proc.resp.settled
  /\ \E r \in GenResponses :
       proc' = IF r.ok THEN [proc EXCEPT !.resp = r]
               ELSE [proc EXCEPT !.pc = "threw", !.req = NoRequest, !.resp = r,
                      !.res = processNoteWithAI_end(r, NoResult)]
  /\ UNCHANGED <<tierVars, embVars, ctxVars, cardVars>>

\* Both promises have settled (or the embedding promise rejected).
processNoteWithAI_resumes ==
  /\ proc.pc = "pending"
  /\ emb[proc.embId].pc = "done"
  /\ proc.resp.settled \/ emb[proc.embId].res.kind = "throw"
  /\ LET r == processNoteWithAI_end(
                IF proc.resp.settled THEN proc.resp
                ELSE [NoResponse EXCEPT !.ok = TRUE],
                emb[proc.embId].res)
     IN proc' = IF r.kind = "throw"
                THEN [proc EXCEPT !.pc = "threw", !.res = r, !.req = NoRequest]
                ELSE [proc EXCEPT !.pc = "returned", !.res = r, !.req = NoRequest,
                                  !.resp = NoResponse]
  /\ UNCHANGED <<tierVars, embVars, ctxVars, cardVars>>

\* The caller has taken the result or the error, and the embedding promise
\* of the call has settled: its slot is free again.
ProcessTaken ==
  /\ proc.pc \in {"returned", "threw"}
  /\ emb[proc.embId].pc = "done"
  /\ proc' = IdleProc
  /\ emb' = [emb EXCEPT ![proc.embId] = IdleEmb]
  /\ UNCHANGED <<tierVars, localEmbedder, ctxVars, cardVars>>

\* ------------------------------------------------------------ ContextManager
PdfType == "application/pdf"
MaxFileSize == 4 * 1024 * 1024

\* The files a user may pick.  data is the base64 text of the file's bytes;
\* a file of no bytes has the empty base64 text.
Files ==
  { [name |-> "manual.pdf", type |-> PdfType, size |-> 2048, data |-> "JVBERi0xLjQ"],
    [name |-> "guide.pdf", type |-> PdfType, size |-> 4096, data |-> "JVBERi0xLjc"],
    [name |-> "empty.pdf", type |-> PdfType, size |-> 0, data |-> ""],
    [name |-> "scan.pdf", type |-> PdfType, size |-> MaxFileSize + 1,
     data |-> "JVBERi0xLjM"],
    [name |-> "notes.txt", type |-> "text/plain", size |-> 5, data |-> "aGVsbG8"] }

NoHist == [op |-> "none", name |-> Null, data |-> Null]
NoFile == [name |-> "", type |-> "", size |-> 0, data |-> ""]
IdleReader == [busy |-> FALSE, file |-> NoFile]
Mounts == 1..MaxMounts

\* FileReader.readAsDataURL: "data:<type>;base64," followed by the data,
\* held as the parts a split at ',' gives.
readAsDataURL(file) == <<"data:" \o file.type \o ";base64", file.data>>

\* `base64String.split(',')[1]` (the array index 1 is the second part)
base64Data(base64String) == base64String[2]

\* A state setter called by a handler of instance inst: it acts on the
\* mounted instance only.  (fresh tells that nothing has happened since the
\* mount; it is kept for inspection only.)
setState(inst, new) == IF inst = cm.inst THEN new ELSE cm

\* Variant: the mount effect does not read the stored name.
Mounted_blank(s, inst) ==
  [fileName |-> Null, error |-> Null, loading |-> FALSE, inst |-> inst,
   fresh |-> TRUE]

\* The state of a ContextManager once its mount effect has run:
\* `if (storedName) setFileName(storedName)`.
Mounted(s, inst) ==
  [fileName |-> IF TruthyAtom(s.filename) THEN s.filename ELSE Null,
   error |-> Null, loading |-> FALSE, inst |-> inst, fresh |-> TRUE]

\* The component is unmounted and mounted again.  A FileReader of the old
\* instance keeps reading.
Mount ==
  /\ cm.inst < MaxMounts
  /\ cm' = Mounted(store, cm.inst + 1)
  /\ UNCHANGED <<tierVars, embVars, proc, store, reader, ctxHist, cardVars>>

\* handleFileUpload.  The input is rendered while fileName is falsy and is
\* disabled while loading.
handleFileUpload(file) ==
  /\ ~TruthyAtom(cm.fileName)
  /\ ~cm.loading
  /\ IF file.type # PdfType
     THEN /\ cm' = [cm EXCEPT !.error = "Only PDF files are supported.",
                              !.loading = FALSE, !.fresh = FALSE]
          /\ UNCHANGED reader
     ELSE IF file.size > MaxFileSize
     THEN /\ cm' = [cm EXCEPT !.error = "File is too large for local storage (Limit: ~4MB).",
                              !.loading = FALSE, !.fresh = FALSE]
          /\ UNCHANGED reader
     ELSE /\ cm' = [cm EXCEPT !.error = Null, !.loading = TRUE, !.fresh = FALSE]
          /\ reader' = [reader EXCEPT ![cm.inst] = [busy |-> TRUE, file |-> file]]
  /\ UNCHANGED <<tierVars, embVars, proc, store, ctxHist, cardVars>>

\* The two localStorage.setItem calls of reader.onload; either may throw
\* for lack of quota, and what was written before the throw stays written.
onload_stored(s, file, quota) ==
  CASE quota = "pdf-throws" -> s
    [] quota = "name-throws" ->
         [s EXCEPT !.pdf = base64Data(readAsDataURL(file))]
    [] quota = "ok" ->
         [s EXCEPT !.pdf = base64Data(readAsDataURL(file)),
                   !.filename = file.name]

\* reader.onload
onload(i) ==
  /\ reader[i].busy
  /\ \E quota \in {"ok", "pdf-throws", "name-throws"} :
       LET file == reader[i].file IN
       /\ store' = onload_stored(store, file, quota)
       /\ cm' = [setState(i,
            IF quota = "ok"
            THEN [cm EXCEPT !.fileName = file.name, !.loading = FALSE]
            ELSE [cm EXCEPT !.error = "Storage quota exceeded. Please use a smaller file.",
                            !.loading = FALSE]) EXCEPT !.fresh = FALSE]
       /\ ctxHist' = IF quota = "ok"
                     THEN [op |-> "upload", name |-> file.name,
                           data |-> file.data]
                     ELSE [op |-> "upload-failed", name |-> file.name,
                           data |-> file.data]
  /\ reader' = [reader EXCEPT ![i] = IdleReader]
  /\ UNCHANGED <<tierVars, embVars, proc, cardVars>>

\* reader.onerror
onerror(i) ==
  /\ reader[i].busy
  /\ cm' = [setState(i, [cm EXCEPT !.error = "Failed to read file.",
                                   !.loading = FALSE]) EXCEPT !.fresh = FALSE]
  /\ reader' = [reader EXCEPT ![i] = IdleReader]
  /\ UNCHANGED <<tierVars, embVars, proc, store, ctxHist, cardVars>>

\* The two localStorage.removeItem calls of clearContext.
clearContext_removed(s) == [pdf |-> Null, filename |-> Null]

\* clearContext.  The delete button is rendered while fileName is truthy.
clearContext ==
  /\ TruthyAtom(cm.fileName)
  /\ store' = clearContext_removed(store)
  /\ cm' = [cm EXCEPT !.fileName = Null, !.error = Null, !.fresh = FALSE]
  /\ ctxHist' = [op |-> "clear", name |-> Null, data |-> Null]
  /\ UNCHANGED <<tierVars, embVars, proc, reader, cardVars>>

\* ------------------------------------------------------------------ NoteCard
UserText == <<"hi">>
Reply == <<"Paris became the capital in 987.">>
ShortReply == <<"Agreed.">>
Apology == <<"I'm sorry, I couldn't generate a response.">>
ConnectionError == <<"Connection error. Please ensure you are online.">>
Integrated == <<"Integrated into note.">>

ChatInputs == {<<>>, <<WS>>, <<WS>> \o UserText \o <<WS>>}
ChatReplies == {UndefinedText, <<>>, Reply, ShortReply}
ReformatTexts == {UndefinedText, <<>>, <<"b">>}
SynthTexts == {UndefinedText, <<WS>>, <<WS, "m", WS>>}

Rejected == [ok |-> FALSE, text |-> UndefinedText]
Responses(texts) == {Rejected} \cup {[ok |-> TRUE, text |-> t] : t \in texts}

\* `msg.text.includes("Integrated into note")`
IncludesIntegrated(t) == \E k \in 1..Len(t) : t[k] = Integrated[1]

\* The texts that carry a "Commit to Note" button.
Committable(msgs) ==
  {msgs[k].text : k \in {j \in 1..Len(msgs) :
      /\ msgs[j].role = "model"
      /\ JSLength(msgs[j].text) > 20
      /\ ~IncludesIntegrated(msgs[j].text)}}

\* The parent's onUpdate(note.id, updates): the updates replace the fields
\* they name.
onUpdate(n, updates) ==
  [n EXCEPT !.content = updates.content,
            !.originalContent = updates.originalContent]

\* The record of the refinements applied since the last revert: whether
\* there is one, and the content the note had before the first of them.
\* It is kept for inspection only.
Unrefined == [refined |-> FALSE, pristine |-> <<>>]
Refined(h, before) ==
  [refined |-> TRUE, pristine |-> IF h.refined THEN h.pristine ELSE before]

IdleCall == [busy |-> FALSE, content |-> <<>>, addition |-> <<>>,
             req |-> NoRequest]
NoCommit == [done |-> FALSE, resp |-> Rejected]

\* The handleReformat that ran to its end last, until the next one starts:
\* whether its request succeeded, the text it returned when that was not
\* empty, and how often the handler called onUpdate and onAiError.
NoReformat == [done |-> FALSE, ok |-> FALSE, text |-> UndefinedText,
               onUpdate |-> 0, onAiError |-> 0]

\* What the parent may set note.aiStatus to.
AiStatuses == {"processing", "completed"}

\* The parent sets the note's aiStatus, as when it starts or ends processing
\* the note.
parentSetsAiStatus(status) ==
  /\ note.aiStatus # status
  /\ note' = [note EXCEPT !.aiStatus = status]
  /\ UNCHANGED <<tierVars, embVars, proc, ctxVars, card, chatMessages,
                 reformatCall, synthCall, chatCall, lastCommit, lastReformat,
                 history>>

\* Variant: reformatNoteContent inlines the stored document.
reformatNoteContent_withDocument ==
  Request(ModelName(currentTier), processParts(getContextPDF(store)))

\* The generateContent calls of reformatNoteContent, of
\* synthesizeNoteContent and of handleSendMessage: the model named, and no
\* inline data among the contents.
reformatNoteContent_request == Request(ModelName(currentTier), NoDoc)
synthesizeNoteContent_request == Request(ModelName(currentTier), NoDoc)
handleSendMessage_request == Request(FlashModel, NoDoc)

\* reformatNoteContent once its request has settled: `response.text ||
\* content`, or the error logged and rethrown.
reformatNoteContent_end(resp, content) ==
  IF ~resp.ok THEN [kind |-> "throw", val |-> <<>>]
  ELSE Return(IF TruthyText(resp.text) THEN resp.text ELSE content)

\* Variant: the catch of synthesizeNoteContent rethrows.
synthesizeNoteContent_rethrows(resp, original, addition) ==
  IF ~resp.ok THEN [kind |-> "throw", val |-> <<>>]
  ELSE IF resp.text # UndefinedText /\ TruthyText(Trim(resp.text))
  THEN Return(Trim(resp.text))
  ELSE Return(original \o <<Sep>> \o addition)

\* synthesizeNoteContent once its request has settled:
\* `response.text?.trim() || `${original}\n\n${addition}``, and the same
\* fallback from the catch.
synthesizeNoteContent_end(resp, original, addition) ==
  IF ~resp.ok THEN Return(original \o <<Sep>> \o addition)
  ELSE IF resp.text # UndefinedText /\ TruthyText(Trim(resp.text))
  THEN Return(Trim(resp.text))
  ELSE Return(original \o <<Sep>> \o addition)

\* Variant: the reformat button is never disabled and handleReformat never
\* returns early.
handleReformat_alwaysEnabled(isReformatting, aiStatus) == FALSE

\* The reformat button's `disabled={isReformatting || note.aiStatus ===
\* 'processing'}` and handleReformat's `if (isReformatting) return`.
handleReformat_disabled(isReformatting, aiStatus) ==
  isReformatting \/ aiStatus = "processing"

\* Variant: the captured content is written back as the new content.
handleReformat_keepsContent(newContent, originalContent) ==
  [content |-> originalContent, originalContent |-> originalContent]

\* handleReformat: the updates it hands to onUpdate.
handleReformat_updates(newContent, originalContent) ==
  [content |-> newContent, originalContent |-> originalContent]

\* handleReformat up to its await.
handleReformat ==
  /\ ~handleReformat_disabled(card.isReformatting, note.aiStatus)
  /\ card' = [card EXCEPT !.isReformatting = TRUE]
  /\ reformatCall' = [busy |-> TRUE, content |-> note.content, addition |-> <<>>,
                      req |-> reformatNoteContent_request]
  /\ lastReformat' = NoReformat
  /\ UNCHANGED <<tierVars, embVars, proc, ctxVars, note, chatMessages,
                 synthCall, chatCall, lastCommit, history>>

\* The reformat request settles and handleReformat runs to its end.
ReformatSettles ==
  /\ reformatCall.busy
  /\ \E resp \in Responses(ReformatTexts) :
       LET originalContent == reformatCall.content
           newContent == reformatNoteContent_end(resp, reformatCall.content)
           updates == newContent.kind = "return" /\ TruthyText(newContent.val)
           caught == newContent.kind = "throw"
       IN /\ note' = IF updates
                     THEN onUpdate(note, handleReformat_updates(newContent.val,
                                                                originalContent))
                     ELSE note
          /\ history' = IF updates THEN Refined(history, note.content) ELSE history
          /\ lastReformat' = [done |-> TRUE, ok |-> resp.ok,
                               text |-> IF TruthyText(resp.text) THEN resp.text
                                        ELSE UndefinedText,
                               onUpdate |-> IF updates THEN 1 ELSE 0,
                               onAiError |-> IF caught THEN 1 ELSE 0]
  /\ card' = [card EXCEPT !.isReformatting = FALSE]
  /\ reformatCall' = IdleCall
  /\ UNCHANGED <<tierVars, embVars, proc, ctxVars, chatMessages,
                 synthCall, chatCall, lastCommit>>

\* handleUndoRequest.  The undo button is rendered while
\* note.originalContent is truthy.
handleUndoRequest ==
  /\ TruthyText(note.originalContent)
  /\ ~card.showUndoConfirm
  /\ card' = [card EXCEPT !.showUndoConfirm = TRUE]
  /\ UNCHANGED <<tierVars, embVars, proc, ctxVars, note, chatMessages,
                 reformatCall, synthCall, chatCall, lastCommit, lastReformat,
                 history>>

\* confirmUndo: the updates it hands to onUpdate.
confirmUndo_updates(n) ==
  [content |-> n.originalContent, originalContent |-> UndefinedText]

\* confirmUndo, the "Confirm Revert" button of the dialog.
confirmUndo ==
  /\ card.showUndoConfirm
  /\ IF TruthyText(note.originalContent)
     THEN /\ note' = onUpdate(note, confirmUndo_updates(note))
          /\ history' = Unrefined
     ELSE UNCHANGED <<note, history>>
  /\ card' = [card EXCEPT !.showUndoConfirm = FALSE]
  /\ UNCHANGED <<tierVars, embVars, proc, ctxVars, chatMessages,
                 reformatCall, synthCall, chatCall, lastCommit, lastReformat>>

\* The dialog's Cancel button and the Escape key.
cancelUndo ==
  /\ card.showUndoConfirm
  /\ card' = [card EXCEPT !.showUndoConfirm = FALSE]
  /\ UNCHANGED <<tierVars, embVars, proc, ctxVars, note, chatMessages,
                 reformatCall, synthCall, chatCall, lastCommit, lastReformat,
                 history>>

\* The chat input's onChange.
setChatInput(v) ==
  /\ card.chatInput # v
  /\ card' = [card EXCEPT !.chatInput = v]
  /\ UNCHANGED <<tierVars, embVars, proc, ctxVars, note, chatMessages,
                 reformatCall, synthCall, chatCall, lastCommit, lastReformat,
                 history>>

\* Variant: a request in flight does not stop another send.
handleSendMessage_ignoresLoading(chatInput, isChatLoading) ==
  ~TruthyText(Trim(chatInput))

\* handleSendMessage: `if (!chatInput.trim() || isChatLoading) return`
handleSendMessage_returns(chatInput, isChatLoading) ==
  ~TruthyText(Trim(chatInput)) \/ isChatLoading

\* Messages that calls in flight will append when they settle.
Pending == (IF chatCall.busy THEN 1 ELSE 0) + (IF synthCall.busy THEN 1 ELSE 0)

\* handleSendMessage up to its await (the send button or the Enter key),
\* while the chat has room for the message, its reply and the report of a
\* commit in flight.
handleSendMessage ==
  /\ Len(chatMessages) + (IF synthCall.busy THEN 1 ELSE 0) + 2 <= MaxChat
  /\ ~handleSendMessage_returns(card.chatInput, card.isChatLoading)
  /\ LET userMsg == Trim(card.chatInput) IN
     /\ chatMessages' = Append(chatMessages, [role |-> "user", text |-> userMsg])
     /\ chatCall' = [busy |-> TRUE, content |-> note.content, addition |-> userMsg,
                     req |-> handleSendMessage_request]
  /\ card' = [card EXCEPT !.chatInput = <<>>, !.isChatLoading = TRUE]
  /\ UNCHANGED <<tierVars, embVars, proc, ctxVars, note, reformatCall, synthCall,
                 lastCommit, lastReformat,
                 history>>

\* `response.text || "I'm sorry, ..."`, or the catch's connection error.
handleSendMessage_reply(resp) ==
  IF ~resp.ok THEN ConnectionError
  ELSE IF TruthyText(resp.text) THEN resp.text ELSE Apology

\* The chat request settles and handleSendMessage runs to its end.
ChatSettles ==
  /\ chatCall.busy
  /\ \E resp \in Responses(ChatReplies) :
       chatMessages' = Append(chatMessages,
                              [role |-> "model", text |-> handleSendMessage_reply(resp)])
  /\ card' = [card EXCEPT !.isChatLoading = FALSE]
  /\ chatCall' = IdleCall
  /\ UNCHANGED <<tierVars, embVars, proc, ctxVars, note, reformatCall,
                 synthCall, lastCommit, lastReformat,
                 history>>

\* Variant: the two fields of the update are swapped.
handleApplySuggestion_swapped(mergedContent, noteContent) ==
  [content |-> noteContent, originalContent |-> mergedContent]

\* handleApplySuggestion: the updates it hands to onUpdate.
handleApplySuggestion_updates(mergedContent, noteContent) ==
  [content |-> mergedContent, originalContent |-> noteContent]

\* handleApplySuggestion up to its await: a "Commit to Note" button.
handleApplySuggestion(text) ==
  /\ Len(chatMessages) + Pending + 1 <= MaxChat
  /\ ~card.isSynthesizing
  /\ card' = [card EXCEPT !.isSynthesizing = TRUE]
  /\ synthCall' = [busy |-> TRUE, content |-> note.content, addition |-> text,
                   req |-> synthesizeNoteContent_request]
  /\ UNCHANGED <<tierVars, embVars, proc, ctxVars, note, chatMessages,
                 reformatCall, chatCall, lastCommit, lastReformat,
                 history>>

\* The synthesis request settles and handleApplySuggestion runs to its end.
SynthesisSettles ==
  /\ synthCall.busy
  /\ \E resp \in Responses(SynthTexts) :
       LET mergedContent ==
             synthesizeNoteContent_end(resp, synthCall.content, synthCall.addition)
           returned == mergedContent.kind = "return"
           updates == handleApplySuggestion_updates(mergedContent.val, synthCall.content)
       IN /\ note' = IF returned THEN onUpdate(note, updates) ELSE note
          /\ history' = IF returned THEN Refined(history, note.content) ELSE history
          /\ chatMessages' = IF returned
                             THEN Append(chatMessages,
                                         [role |-> "model", text |-> Integrated])
                             ELSE chatMessages
          /\ lastCommit' = [done |-> TRUE, resp |-> resp]
  /\ card' = [card EXCEPT !.isSynthesizing = FALSE]
  /\ synthCall' = IdleCall
  /\ UNCHANGED <<tierVars, embVars, proc, ctxVars, reformatCall, chatCall,
                 lastReformat>>

\* ------------------------------------------------------------- specifications
Init ==
  /\ currentTier = "flash"
  /\ localEmbedder = Null
  /\ emb = [i \in EmbIds |-> IdleEmb]
  /\ proc = IdleProc
  /\ store = [pdf |-> Null, filename |-> Null]
  /\ cm = [Mounted(store, 1) EXCEPT !.fresh = FALSE]
  /\ reader = [i \in Mounts |-> IdleReader]
  /\ ctxHist = NoHist
  /\ note = [content |-> <<"a">>, originalContent |-> UndefinedText,
            aiStatus |-> "completed"]
  /\ card = [isReformatting |-> FALSE, isSynthesizing |-> FALSE,
             isChatLoading |-> FALSE, showUndoConfirm |-> FALSE,
             chatInput |-> <<>>]
  /\ chatMessages = <<>>
  /\ reformatCall = IdleCall
  /\ synthCall = IdleCall
  /\ chatCall = IdleCall
  /\ lastCommit = NoCommit
  /\ lastReformat = NoReformat
  /\ history = Unrefined

EmbeddingNext ==
  \/ \E i \in EmbIds : EmbedContentSettles(i)
  \/ \E i \in EmbIds : PipelineSettles(i)
  \/ \E i \in EmbIds : ModelSettles(i)

ProcessNext ==
  \/ \E i \in EmbIds : processNoteWithAI(i)
  \/ GenerateSettles
  \/ processNoteWithAI_resumes
  \/ ProcessTaken

ContextNext ==
  \/ Mount
  \/ \E file \in Files : handleFileUpload(file)
  \/ \E i \in Mounts : onload(i)
  \/ \E i \in Mounts : onerror(i)
  \/ clearContext

CardNext ==
  \/ \E status \in AiStatuses : parentSetsAiStatus(status)
  \/ handleReformat
  \/ ReformatSettles
  \/ handleUndoRequest
  \/ confirmUndo
  \/ cancelUndo
  \/ \E v \in ChatInputs : setChatInput(v)
  \/ handleSendMessage
  \/ ChatSettles
  \/ \E text \in Committable(chatMessages) : handleApplySuggestion(text)
  \/ SynthesisSettles

\* The handlers of the note card that issue generation requests.
CardRequests ==
  \/ handleReformat
  \/ ReformatSettles
  \/ \E v \in ChatInputs : setChatInput(v)
  \/ handleSendMessage
  \/ ChatSettles
  \/ \E text \in Committable(chatMessages) : handleApplySuggestion(text)
  \/ SynthesisSettles

\* The service module's embedding and note processing.
NextEmbed ==
  \/ \E i \in EmbIds : getTextEmbedding(i)
  \/ \E i \in EmbIds : EmbeddingTaken(i)
  \/ EmbeddingNext
  \/ ProcessNext
SpecEmbed == Init /\ [][NextEmbed]_vars

\* The note card.
NextCard == CardNext
SpecCard == Init /\ [][NextCard]_vars

\* The note card, every reformat request settling in the end.
SpecCardFair == SpecCard /\ WF_vars(ReformatSettles)

\* The context manager, and note processing reading what it stored.
NextContext ==
  \/ ContextNext
  \/ EmbeddingNext
  \/ ProcessNext
SpecContext == Init /\ [][NextContext]_vars

\* Tier selection with every kind of generation request.
NextTier ==
  \/ \E tier \in Tiers : setModelTier(tier)
  \/ EmbeddingNext
  \/ ProcessNext
  \/ CardRequests
SpecTier == Init /\ [][NextTier]_vars

\* What localStorage may hold when the page loads: nothing, or what an
\* upload of an earlier visit left.
PersistedStores ==
  {[pdf |-> Null, filename |-> Null]}
    \cup {[pdf |-> f.data, filename |-> f.name] :
            f \in {g \in Files : g.type = PdfType /\ g.size <= MaxFileSize}}

InitStored ==
  \E s \in PersistedStores :
    /\ store = s
    /\ cm = [Mounted(s, 1) EXCEPT !.fresh = FALSE]
    /\ currentTier = "flash"
    /\ localEmbedder = Null
    /\ emb = [i \in EmbIds |-> IdleEmb]
    /\ proc = IdleProc
    /\ reader = [i \in Mounts |-> IdleReader]
    /\ ctxHist = NoHist
    /\ note = [content |-> <<"a">>, originalContent |-> UndefinedText,
            aiStatus |-> "completed"]
    /\ card = [isReformatting |-> FALSE, isSynthesizing |-> FALSE,
               isChatLoading |-> FALSE, showUndoConfirm |-> FALSE,
               chatInput |-> <<>>]
    /\ chatMessages = <<>>
    /\ reformatCall = IdleCall
    /\ synthCall = IdleCall
    /\ chatCall = IdleCall
    /\ lastCommit = NoCommit
    /\ lastReformat = NoReformat
    /\ history = Unrefined

\* Every kind of generation request, with a document stored or not.
NextStored ==
  \/ EmbeddingNext
  \/ ProcessNext
  \/ CardRequests
SpecStored == InitStored /\ [][NextStored]_vars

\* ------------------------------------------------------------------- steps
ProcessStarted == proc.pc = "idle" /\ proc'.pc = "pending"
ReformatStarted == ~reformatCall.busy /\ reformatCall'.busy
SynthesisStarted == ~synthCall.busy /\ synthCall'.busy
ChatStarted == ~chatCall.busy /\ chatCall'.busy
CommitSettled == synthCall.busy /\ ~synthCall'.busy
Reverted == history.refined /\ ~history'.refined

\* The model the selected tier stands for.
TierModel(tier) == IF tier = "pro" THEN ProModel ELSE FlashModel

\* ------------------------------------------------------------------ claims

\* C1: getTextEmbedding never fails.  A call that has ended has returned:
\* the cloud vector, without the local embedder being invoked, when the
\* cloud call succeeded; otherwise the local vector when the local model was
\* initialised and produced one, and undefined in every other case.
C1_EmbeddingNeverFails ==
  \A i \in EmbIds :
    emb[i].pc = "done" =>
      /\ emb[i].res.kind = "return"
      /\ emb[i].cloud \in {"ok", "fail"}
      /\ emb[i].cloud = "ok" =>
           /\ emb[i].res.val = CloudVector
           /\ ~emb[i].localInvoked /\ emb[i].init = "none" /\ emb[i].run = "none"
      /\ emb[i].cloud = "fail" =>
           /\ emb[i].localInvoked
           /\ emb[i].res.val =
                IF emb[i].init = "ok" /\ emb[i].run = "ok"
                THEN LocalVector ELSE Undefined

\* Two calls have ended: one on the cloud vector, one after the cloud call
\* and the local model both failed.
C1_Witness ==
  \E i, j \in EmbIds :
    /\ emb[i].pc = "done" /\ emb[i].cloud = "ok"
    /\ emb[j].pc = "done" /\ emb[j].cloud = "fail" /\ emb[j].run = "failed"
    /\ emb[j].res = Return(Undefined)

\* C2: the tier starts as 'flash'; a call of processNoteWithAI,
\* reformatNoteContent or synthesizeNoteContent issues its request to the pro
\* model exactly when the tier selected as the call starts is 'pro', and to
\* the flash model otherwise; the request of a call in flight keeps its
\* model whatever setModelTier does meanwhile.
C2_TierDecidesModel ==
  /\ currentTier = "flash"
  /\ [][/\ ProcessStarted => proc'.req.model = TierModel(currentTier)
        /\ ReformatStarted => reformatCall'.req.model = TierModel(currentTier)
        /\ SynthesisStarted => synthCall'.req.model = TierModel(currentTier)
        /\ proc.pc = "pending" /\ proc'.pc = "pending" => proc'.req = proc.req
        /\ reformatCall.busy /\ reformatCall'.busy =>
             reformatCall'.req = reformatCall.req
        /\ synthCall.busy /\ synthCall'.busy => synthCall'.req = synthCall.req
       ]_vars

\* The three requests are in flight and the tier has changed since each was
\* issued: the synthesis went to the pro model, the tier is 'flash' again.
C2_Witness ==
  /\ proc.pc = "pending" /\ proc.req.model = ProModel
  /\ reformatCall.busy /\ reformatCall.req.model = ProModel
  /\ synthCall.busy /\ synthCall.req.model = ProModel
  /\ currentTier = "flash"

\* C3: every generation request, the chat request of handleSendMessage
\* included, targets the model of the tier selected when it is issued.
C3_EveryRequestFollowsTier ==
  [][/\ ProcessStarted => proc'.req.model = TierModel(currentTier)
     /\ ReformatStarted => reformatCall'.req.model = TierModel(currentTier)
     /\ SynthesisStarted => synthCall'.req.model = TierModel(currentTier)
     /\ ChatStarted => chatCall'.req.model = TierModel(currentTier)
    ]_vars

\* C4 as stated: processNoteWithAI inlines the document exactly when a
\* context PDF is present in local storage as the call starts; once
\* clearContext has run the storage holds none, and after a successful
\* upload the request carries exactly the uploaded document.
C4_AttachedIffPresent ==
  [][/\ ProcessStarted =>
          /\ proc'.req.doc # NoDoc <=> store.pdf # Null
          /\ proc'.req.doc # NoDoc => proc'.req.doc = store.pdf
          /\ ctxHist.op = "upload" => proc'.req.doc = ctxHist.data
     /\ ctxHist'.op = "clear" => store'.pdf = Null
    ]_vars

\* C4, amended: processNoteWithAI inlines the document exactly when a
\* non-empty context PDF is present in local storage as the call starts, and
\* then inlines that document; after clearContext the storage holds no
\* document until the next upload writes one, and after a successful upload
\* it holds the uploaded document until the next upload or clear.
C4_AttachedIffNonEmpty ==
  [][/\ ProcessStarted =>
          /\ proc'.req.doc # NoDoc <=> store.pdf \notin {Null, ""}
          /\ proc'.req.doc # NoDoc => proc'.req.doc = store.pdf
          /\ ctxHist.op = "upload" /\ ctxHist.data # "" =>
               proc'.req.doc = ctxHist.data
          /\ ctxHist.op = "clear" => proc'.req.doc = NoDoc
     /\ ctxHist'.op = "clear" => store'.pdf = Null
     /\ ctxHist'.op = "upload" => store'.pdf = ctxHist'.data
    ]_vars

\* A request issued after a remount carries the document of the upload
\* that ended last.
C4_Witness ==
  /\ proc.pc = "pending"
  /\ ctxHist.op = "upload"
  /\ cm.inst > 1
  /\ proc.req.doc = "JVBERi0xLjc"
  /\ store.pdf = "JVBERi0xLjc"

\* C8: a ContextManager mounted after a successful upload shows the
\* uploaded file's name, and one mounted after clearContext shows none.
C8_SurvivesRemount ==
  cm.fresh =>
    /\ ctxHist.op = "upload" => cm.fileName = ctxHist.name
    /\ ctxHist.op = "clear" => cm.fileName = Null

\* A fresh instance shows the name of the file uploaded before it mounted.
C8_Witness ==
  /\ cm.fresh
  /\ cm.inst > 1
  /\ ctxHist.op = "upload"
  /\ cm.fileName = "manual.pdf"

\* C5 as stated: while a context document is stored, every AI request (note
\* processing, reformat, synthesis, chat) has the document attached.
C5_EveryRequestCarriesDocument ==
  [][store.pdf \notin {Null, ""} =>
       /\ ProcessStarted => proc'.req.doc = store.pdf
       /\ ReformatStarted => reformatCall'.req.doc = store.pdf
       /\ SynthesisStarted => synthCall'.req.doc = store.pdf
       /\ ChatStarted => chatCall'.req.doc = store.pdf
    ]_vars

\* C5, amended: while a non-empty context document is stored, every
\* note-processing request has it attached; reformat, synthesis and chat
\* requests never carry a document.
C5_OnlyProcessingCarriesDocument ==
  [][/\ store.pdf \notin {Null, ""} /\ ProcessStarted =>
          proc'.req.doc = store.pdf
     /\ ReformatStarted => reformatCall'.req.doc = NoDoc
     /\ SynthesisStarted => synthCall'.req.doc = NoDoc
     /\ ChatStarted => chatCall'.req.doc = NoDoc
    ]_vars

\* With a document stored and the chat reply received, the other three
\* kinds of request are in flight: the note-processing one carries the
\* document, the others none.
C5_Witness ==
  /\ store.pdf = "JVBERi0xLjQ"
  /\ proc.pc = "pending" /\ proc.req.doc = "JVBERi0xLjQ"
  /\ reformatCall.busy /\ reformatCall.req.doc = NoDoc
  /\ synthCall.busy /\ synthCall.req.doc = NoDoc
  /\ ~chatCall.busy /\ Len(chatMessages) > 1

\* What synthesizeNoteContent is to return for a reply: the trimmed text
\* when there is one and it is not empty, and otherwise the original
\* content, a blank line and the addition.
ExpectedMerge(resp, original, addition) ==
  IF resp.ok /\ resp.text # UndefinedText /\ Trim(resp.text) # <<>>
  THEN Trim(resp.text)
  ELSE original \o <<Sep>> \o addition

\* C6: a commit of a chat suggestion, started while no synthesis runs,
\* captures the note's content; when its synthesis ends the note is updated
\* once, content being the merge of the captured content and the suggestion
\* and originalContent the captured content, and one model message
\* 'Integrated into note.' is appended to the chat.
C6_CommitUpdatesOnce ==
  [][/\ SynthesisStarted =>
          /\ ~card.isSynthesizing
          /\ synthCall'.content = note.content
          /\ synthCall'.addition \in Committable(chatMessages)
          /\ note' = note /\ chatMessages' = chatMessages
     /\ CommitSettled =>
          /\ note'.content =
               ExpectedMerge(lastCommit'.resp, synthCall.content, synthCall.addition)
          /\ note'.originalContent = synthCall.content
          /\ chatMessages' =
               Append(chatMessages, [role |-> "model", text |-> Integrated])
     /\ synthCall.busy /\ synthCall'.busy =>
          \/ chatMessages' = chatMessages
          \/ chatMessages'[Len(chatMessages')].text # Integrated
    ]_vars

\* A commit has ended with the model's merge written and reported.
C6_Witness ==
  /\ lastCommit.done /\ lastCommit.resp.ok
  /\ ~synthCall.busy
  /\ note.content = <<"m">>
  /\ note.originalContent = <<"a">>
  /\ chatMessages[Len(chatMessages)].text = Integrated

\* C7: confirmUndo restores the content the note had before any refinement
\* was applied since the last revert, and clears originalContent.
C7_UndoRestoresOriginal ==
  [][Reverted =>
       /\ note'.content = history.pristine
       /\ note'.originalContent = UndefinedText
    ]_vars

\* C10: synthesizeNoteContent never fails.  It returns the trimmed reply
\* when that is not empty and otherwise, on an empty reply or a failed
\* request, the original content, a blank line and the addition; so every
\* commit that ends has written the note and reported 'Integrated into
\* note.', also when the request failed.
C10_SynthesisNeverFails ==
  [][CommitSettled =>
       /\ lastCommit'.done
       /\ LET resp == lastCommit'.resp
              fallback == synthCall.content \o <<Sep>> \o synthCall.addition
          IN /\ resp.ok /\ resp.text # UndefinedText /\ Trim(resp.text) # <<>> =>
                  note'.content = Trim(resp.text)
             /\ ~resp.ok \/ resp.text = UndefinedText \/ Trim(resp.text) = <<>> =>
                  note'.content = fallback
       /\ Len(chatMessages') = Len(chatMessages) + 1
       /\ chatMessages'[Len(chatMessages')] = [role |-> "model", text |-> Integrated]
    ]_vars

\* A commit whose request failed has written the fallback and reported it.
C10_Witness ==
  /\ lastCommit.done /\ ~lastCommit.resp.ok
  /\ ~synthCall.busy
  /\ note.content = <<"a", Sep>> \o Reply
  /\ chatMessages[Len(chatMessages)].text = Integrated

\* The embedding call of the processNoteWithAI call in progress failed
\* both in the cloud and locally.
EmbeddingFailed ==
  LET e == emb[proc.embId] IN
  e.pc = "done" /\ e.cloud = "fail" /\ (e.init = "failed" \/ e.run = "failed")

\* A field of the parsed metadata, or its default when missing or empty.
FieldOr(text, field, default) ==
  IF text.kind = "json" /\ text.obj[field] \notin {Undefined, ""}
  THEN text.obj[field] ELSE default

\* C9: processNoteWithAI fails exactly when the metadata request fails or
\* its response text does not parse; a failure of the embedding, cloud and
\* local both, does not make it fail and gives embedding undefined; a
\* result carries the parsed fields, with 'General', 'New Entry' and []
\* for those missing.
C9_FailsOnlyOnMetadata ==
  [][/\ proc.pc = "pending" /\ proc'.pc = "threw" =>
          /\ proc'.resp.settled
          /\ ~proc'.resp.ok \/ proc'.resp.text.kind = "garbage"
     /\ proc.pc = "pending" /\ proc'.pc = "returned" =>
          /\ proc.resp.settled /\ proc.resp.ok
          /\ proc.resp.text.kind # "garbage"
          /\ proc'.res.kind = "return"
          /\ proc'.res.val.category = FieldOr(proc.resp.text, "category", "General")
          /\ proc'.res.val.headline = FieldOr(proc.resp.text, "headline", "New Entry")
          /\ proc'.res.val.tags =
               IF proc.resp.text.kind = "json" /\ proc.resp.text.obj.tags # UndefinedTags
               THEN proc.resp.text.obj.tags ELSE <<>>
          /\ proc'.res.val.embedding = emb[proc.embId].res.val
          /\ EmbeddingFailed => proc'.res.val.embedding = Undefined
     /\ proc.pc = "pending" /\ proc.resp.settled /\ proc.resp.text.kind = "garbage" =>
          proc'.pc # "returned"
     /\ proc.pc = "pending" /\ EmbeddingFailed /\ proc.resp.settled /\ proc.resp.ok
        /\ proc.resp.text.kind # "garbage" => proc'.pc # "threw"
    ]_vars

\* A call has returned the defaults with embedding undefined: the metadata
\* text was empty and the embedding failed in the cloud and locally.
C9_Witness ==
  /\ proc.pc = "returned"
  /\ emb[proc.embId].cloud = "fail" /\ emb[proc.embId].init = "failed"
  /\ proc.res.val = [category |-> "General", headline |-> "New Entry",
                     tags |-> <<>>, embedding |-> Undefined]

\* A reformat request has settled and handleReformat has run to its end.
ReformatSettled == reformatCall.busy /\ ~reformatCall'.busy

\* C11: no update is lost between AI operations on a note.  When a reformat
\* or a synthesis ends and writes the note, the content it replaces is the
\* content its request was issued with, and the originalContent it records
\* is the content the note had just before the write.
C11_NoLostUpdate ==
  [][/\ ReformatSettled /\ note' # note =>
          /\ note.content = reformatCall.content
          /\ note'.originalContent = note.content
     /\ CommitSettled /\ note' # note =>
          /\ note.content = synthCall.content
          /\ note'.originalContent = note.content
    ]_vars

\* C12: in local storage the context PDF key and the context file-name key
\* are both present or both absent, and ContextManager displays a file name
\* exactly when a context PDF is stored, also after an upload whose storage
\* write failed.
C12_KeysConsistent ==
  /\ store.pdf = Null <=> store.filename = Null
  /\ cm.fileName # Null <=> store.pdf # Null

\* C13: at most one reformat request is in flight per note card: a request
\* is issued only while none is in flight, isReformatting is false and the
\* note's aiStatus is not 'processing'; isReformatting is true exactly while
\* a request is in flight, and after every attempt, successful or failed,
\* it returns to false.
C13_OneReformatInFlight ==
  /\ [](card.isReformatting <=> reformatCall.busy)
  /\ [][reformatCall'.busy /\ reformatCall' # reformatCall =>
          /\ ~reformatCall.busy
          /\ ~card.isReformatting
          /\ note.aiStatus # "processing"
       ]_vars
  /\ (card.isReformatting ~> ~card.isReformatting)

\* A failed reformat has ended with isReformatting false again, and the
\* parent is processing the note, so none can start.
C13_Witness ==
  /\ lastReformat.done /\ ~lastReformat.ok
  /\ ~card.isReformatting /\ ~reformatCall.busy
  /\ note.aiStatus = "processing"

\* C14: a reformat whose request fails leaves the note as it is, calling
\* onUpdate not at all and onAiError once; a reformat whose request returns
\* a non-empty text calls onUpdate once, with that text as content and the
\* content captured at the click as originalContent, and does not call
\* onAiError.
C14_ReformatOutcome ==
  [][ReformatSettled =>
       /\ lastReformat'.done
       /\ ~lastReformat'.ok =>
            /\ note' = note
            /\ lastReformat'.onUpdate = 0
            /\ lastReformat'.onAiError = 1
       /\ lastReformat'.ok /\ TruthyText(lastReformat'.text) =>
            /\ lastReformat'.onUpdate = 1
            /\ note'.content = lastReformat'.text
            /\ note'.originalContent = reformatCall.content
            /\ lastReformat'.onAiError = 0
    ]_vars

\* A reformat has failed after an earlier one succeeded: the note still
\* holds what the earlier one wrote.
C14_Witness ==
  /\ lastReformat.done /\ ~lastReformat.ok
  /\ lastReformat.onAiError = 1
  /\ ~reformatCall.busy
  /\ note.content = <<"b">>
  /\ note.originalContent = <<"a">>

\* The user messages of a chat, and the replies to them (the model messages
\* other than the reports of a commit).
UserMessages(msgs) == {k \in 1..Len(msgs) : msgs[k].role = "user"}
ChatReplyMessages(msgs) ==
  {k \in 1..Len(msgs) : msgs[k].role = "model" /\ msgs[k].text # Integrated}

\* A chat request has settled and handleSendMessage has run to its end.
ChatSettled == chatCall.busy /\ ~chatCall'.busy

\* C15: handleSendMessage does nothing while the trimmed input is empty or
\* a chat request is in flight; otherwise it appends the trimmed input as
\* one user message, clears the input and issues the request; when the
\* request settles one model message is appended (the reply, the apology or
\* the connection error) and isChatLoading is false again.  So at most one
\* chat request is in flight and the replies never outnumber the user
\* messages.
C15_ChatExchange ==
  /\ [](card.isChatLoading <=> chatCall.busy)
  /\ [](Cardinality(ChatReplyMessages(chatMessages))
          <= Cardinality(UserMessages(chatMessages)))
  /\ [][/\ ~TruthyText(Trim(card.chatInput)) \/ card.isChatLoading =>
             /\ UserMessages(chatMessages') = UserMessages(chatMessages)
             /\ ~(chatCall'.busy /\ chatCall' # chatCall)
        /\ (chatCall'.busy /\ chatCall' # chatCall)
             \/ UserMessages(chatMessages') # UserMessages(chatMessages) =>
             /\ ~chatCall.busy
             /\ chatMessages' =
                  Append(chatMessages,
                         [role |-> "user", text |-> Trim(card.chatInput)])
             /\ card'.chatInput = <<>>
             /\ card'.isChatLoading /\ chatCall'.busy
        /\ ChatSettled =>
             /\ Len(chatMessages') = Len(chatMessages) + 1
             /\ SubSeq(chatMessages', 1, Len(chatMessages)) = chatMessages
             /\ chatMessages'[Len(chatMessages')].role = "model"
             /\ chatMessages'[Len(chatMessages')].text
                  \in {Reply, ShortReply, Apology, ConnectionError}
             /\ ~card'.isChatLoading
        /\ ~ChatSettled =>
             ChatReplyMessages(chatMessages') = ChatReplyMessages(chatMessages)
       ]_vars

\* A chat request has failed: the user message is followed by the
\* connection error, and the input, now blank, sends nothing.
C15_Witness ==
  /\ Len(chatMessages) = 2
  /\ chatMessages[1] = [role |-> "user", text |-> UserText]
  /\ chatMessages[2] = [role |-> "model", text |-> ConnectionError]
  /\ ~card.isChatLoading /\ ~chatCall.busy
  /\ card.chatInput = <<WS>>

\* C16: the local embedding model is loaded at most once.  A call that
\* reaches initLocalEmbedder once a model is loaded uses it without loading;
\* no load completes once a model is loaded, overlapping calls included, and
\* the model once loaded stays the same; a load that fails caches nothing,
\* so the next call loads again.
C16_LoadedAtMostOnce ==
  [][\A i \in EmbIds :
       /\ emb[i].pc = "cloud" /\ emb'[i].pc = "load" => localEmbedder = Null
       /\ emb[i].pc = "cloud" /\ emb'[i].localInvoked /\ localEmbedder # Null =>
            emb'[i].pc = "run"
       /\ emb[i].pc = "load" /\ emb'[i].init = "ok" => localEmbedder = Null
       /\ emb[i].pc = "load" /\ emb'[i].init = "failed" =>
            localEmbedder' = localEmbedder
       /\ localEmbedder # Null => localEmbedder' = localEmbedder
    ]_vars
====
